---- MODULE Spec2Model ----
(***************************************************************************)
(* Model of script.js (version 20.0.0) of the election map: the annotation *)
(* store, the district selection / search controller, the year loader and  *)
(* the vote aggregation (processVoteData).                                 *)
(*                                                                         *)
(* JavaScript values are modelled as follows.                              *)
(*   - a string is a TLA+ string; null/undefined is the string NULL;       *)
(*   - a number field of a CSV row is <<n>>, or <<>> when it is missing;   *)
(*   - an object used as a map is the sequence of its [key, val] entries   *)
(*     in the order Object.keys enumerates them.                           *)
(*   - a number is a TLA+ integer; the quotients of the colour classifiers *)
(*     are IEEE 754 doubles, bit by bit.                                   *)
(***************************************************************************)
EXTENDS Integers, Sequences, FiniteSets, Bags, TLC

VARIABLES
    \* --- annotation store (script.js 203, 759-814) ---
    annotations,            \* let annotations = {}
    annotationLayer,        \* markers of the Leaflet layer group, in insertion order
    annotationList,         \* items of the rendered #annotation-list
    annCall,                \* the last annotation handler that ran, what it raised, and
                            \* the stored keys in the order they entered the store
    \* --- selection, search and year load (script.js 184-201, 228-465) ---
    pc,                     \* position of the DOMContentLoaded handler
    winners2024,            \* let winners2024 = {}
    loads,                  \* loadAndDisplayYear calls awaiting their Promise.all
    yearSelector,           \* yearSelector.value
    currentGeoData,         \* cached boundary features, or NoGeo
    searchInput,            \* searchInput.value
    recallDistricts,        \* the array RECALL_DISTRICTS (sorted in place by the filter)
    districtSelector,       \* [options, value] of the <select>
    currentSelectedDistrict,
    geoJsonLayer,           \* NoLayer or [features, onMap]
    infoPanel,              \* what infoPanel.innerHTML shows
    ev,                     \* the last handler that ran: its type, its outcome (a load)
                            \* or the query before it (a search), its renders, and for
                            \* a settled load the file Papa.parse resolved with and,
                            \* when it rebuilt the aggregate, the year of the one before
    \* --- aggregation (script.js 195-197, 467-530) ---
    voteData,               \* the rows of the votes file handed to processVoteData
    villageResults,
    districtResults,
    geoKeyToDistrictMap,
    \* --- functions run on their own: colour classifiers and exports ---
    called                  \* the last such call: its function, arguments and result,
                            \* or the downloadFile calls and alerts it made

annVars == <<annotations, annotationLayer, annotationList, annCall>>
selVars == <<pc, winners2024, loads, yearSelector, currentGeoData, searchInput, recallDistricts, districtSelector, currentSelectedDistrict, geoJsonLayer, infoPanel, ev>>
aggVars == <<voteData, villageResults, districtResults, geoKeyToDistrictMap>>
vars == <<annVars, selVars, aggVars, called>>

----------------------------------------------------------------------------
(* JavaScript strings                                                      *)

NULL == "<null>"

\* !x for a string-or-null value
Falsy(x) == x = NULL \/ x = ""

\* `${x}` in a template literal
Str(x) == IF x = NULL THEN "null" ELSE x

CharAt(s, i) == SubSeq(s, i, i)

WhiteSpace == {" ", "\t", "\n"}

RECURSIVE TrimStart(_)
TrimStart(s) == IF Len(s) > 0 /\ CharAt(s, 1) \in WhiteSpace THEN TrimStart(SubSeq(s, 2, Len(s))) ELSE s

RECURSIVE TrimEnd(_)
TrimEnd(s) == IF Len(s) > 0 /\ CharAt(s, Len(s)) \in WhiteSpace THEN TrimEnd(SubSeq(s, 1, Len(s) - 1)) ELSE s

\* String.prototype.trim
Trim(s) == TrimEnd(TrimStart(s))

LowerChar(c) == CASE c = "A" -> "a" [] c = "B" -> "b" [] c = "X" -> "x" [] c = "Y" -> "y" [] c = "D" -> "d" [] c = "T" -> "t" [] OTHER -> c

RECURSIVE ToLowerCase(_)
ToLowerCase(s) == IF s = "" THEN "" ELSE LowerChar(CharAt(s, 1)) \o ToLowerCase(SubSeq(s, 2, Len(s)))

\* String.prototype.includes
Includes(s, q) == \E i \in 1..(Len(s) - Len(q) + 1) : SubSeq(s, i, i + Len(q) - 1) = q

RECURSIVE Join(_, _)
Join(parts, sep) == IF Len(parts) = 0 THEN "" ELSE IF Len(parts) = 1 THEN parts[1] ELSE parts[1] \o sep \o Join(Tail(parts), sep)

----------------------------------------------------------------------------
(* JavaScript objects used as maps: entries in Object.keys order           *)

\* The value of an own property key that is an array index ("0", "1", ...),
\* or -1: such keys are enumerated first, in ascending numeric order.
KeyIndex(k) == CASE k = "0" -> 0 [] k = "1" -> 1 [] k = "2" -> 2 [] k = "3" -> 3 [] OTHER -> 0 - 1

ObjKeys(o) == [i \in 1..Len(o) |-> o[i].key]

ObjHas(o, k) == \E i \in 1..Len(o) : o[i].key = k

ObjGet(o, k) == o[CHOOSE i \in 1..Len(o) : o[i].key = k].val

ObjValues(o) == [i \in 1..Len(o) |-> o[i].val]

\* number of entries that Object.keys lists before a new key k
InsertPos(o, k) == IF KeyIndex(k) < 0 THEN Len(o) ELSE Cardinality({i \in 1..Len(o) : KeyIndex(o[i].key) >= 0 /\ KeyIndex(o[i].key) < KeyIndex(k)})

\* o[k] = v
ObjPut(o, k, v) == IF ObjHas(o, k) THEN [i \in 1..Len(o) |-> IF o[i].key = k THEN [key |-> k, val |-> v] ELSE o[i]] ELSE SubSeq(o, 1, InsertPos(o, k)) \o <<[key |-> k, val |-> v]>> \o SubSeq(o, InsertPos(o, k) + 1, Len(o))

\* delete o[k]
ObjDel(o, k) == SelectSeq(o, LAMBDA e : e.key # k)

----------------------------------------------------------------------------
(* Annotation store                                                        *)

\* geo keys of the villages a user can annotate; "1" and "2" are array indices
AnnKeys == {"1", "2", "A1"}
AnnNames == {"C T V1", "C T V2"}
AnnNotes == {"", " ", "n", " n\n"}
\* centres [lat, lng] of the clicked village layer
AnnCenters == {<<1, 2>>, <<2, 1>>}

\* what one handler run works on: the store, the marker layer, the list, and
\* the alerts and list renders it has raised so far
AnnState(a, l, d) == [annotations |-> a, annotationLayer |-> l, annotationList |-> d, alerts |-> <<>>, renders |-> 0]

addOrUpdateMarker_keepOld(st, geoKey) ==
    IF ObjHas(st.annotations, geoKey)
    THEN LET a == ObjGet(st.annotations, geoKey)
         IN [st EXCEPT !.annotationLayer = @ \o <<[geoKey |-> geoKey, lat |-> a.lat, lng |-> a.lng, popup |-> <<a.name, a.note>>]>>]
    ELSE [st EXCEPT !.annotationLayer = SelectSeq(@, LAMBDA m : m.geoKey # geoKey)]

addOrUpdateMarker(st, geoKey) ==
    LET kept == SelectSeq(st.annotationLayer, LAMBDA m : m.geoKey # geoKey)
    IN IF ObjHas(st.annotations, geoKey)
       THEN LET a == ObjGet(st.annotations, geoKey)
            IN [st EXCEPT !.annotationLayer = kept \o <<[geoKey |-> geoKey, lat |-> a.lat, lng |-> a.lng, popup |-> <<a.name, a.note>>]>>]
       ELSE [st EXCEPT !.annotationLayer = kept]

renderAnnotationList(st) == [st EXCEPT !.annotationList = [i \in 1..Len(st.annotations) |-> [geoKey |-> st.annotations[i].key, name |-> st.annotations[i].val.name, note |-> st.annotations[i].val.note]], !.renders = @ + 1]

alert(st, msg) == [st EXCEPT !.alerts = Append(@, msg)]

deleteAnnotation_unguarded(st, geoKey) == alert(renderAnnotationList(addOrUpdateMarker([st EXCEPT !.annotations = ObjDel(@, geoKey)], geoKey)), "deleted")

deleteAnnotation(st, geoKey) ==
    IF ObjHas(st.annotations, geoKey)
    THEN alert(renderAnnotationList(addOrUpdateMarker([st EXCEPT !.annotations = ObjDel(@, geoKey)], geoKey)), "deleted")
    ELSE st

saveAnnotation_notrim(st, geoKey, name, note, lat, lng) ==
    IF note = ""
    THEN deleteAnnotation(st, geoKey)
    ELSE alert(renderAnnotationList(addOrUpdateMarker([st EXCEPT !.annotations = ObjPut(@, geoKey, [name |-> name, note |-> note, lat |-> lat, lng |-> lng])], geoKey)), "saved")

saveAnnotation(st, geoKey, name, note, lat, lng) ==
    IF Trim(note) = ""
    THEN deleteAnnotation(st, geoKey)
    ELSE alert(renderAnnotationList(addOrUpdateMarker([st EXCEPT !.annotations = ObjPut(@, geoKey, [name |-> name, note |-> note, lat |-> lat, lng |-> lng])], geoKey)), "saved")

\* the handler's result becomes the new state; annCall records the call
AnnApply(st, op, k, blank) ==
    /\ annotations' = st.annotations
    /\ annotationLayer' = st.annotationLayer
    /\ annotationList' = st.annotationList
    /\ annCall' = [op |-> op, key |-> k, blank |-> blank, present |-> ObjHas(annotations, k), alerts |-> st.alerts, renders |-> st.renders,
                   inserted |-> LET kept == SelectSeq(annCall.inserted, LAMBDA x : ObjHas(st.annotations, x))
                                IN IF ObjHas(st.annotations, k) /\ ~ObjHas(annotations, k) THEN Append(kept, k) ELSE kept]

\* click on #save-annotation-btn of the village panel (script.js 692-696)
SaveAnnotationClick ==
    \E k \in AnnKeys, name \in AnnNames, note \in AnnNotes, center \in AnnCenters :
        /\ AnnApply(saveAnnotation(AnnState(annotations, annotationLayer, annotationList), k, name, note, center[1], center[2]), "save", k, Trim(note) = "")
        /\ UNCHANGED <<called, selVars, aggVars>>

\* click on #delete-annotation-btn of the village panel (script.js 697-700)
DeleteAnnotationClick ==
    \E k \in AnnKeys :
        /\ AnnApply(deleteAnnotation(AnnState(annotations, annotationLayer, annotationList), k), "delete", k, FALSE)
        /\ UNCHANGED <<called, selVars, aggVars>>

----------------------------------------------------------------------------
(* Vote aggregation: processVoteData                                       *)

\* The allow-list, cut down to two districts under short names and, like the
\* array of the source, not in collation order. "DX" stands for any district
\* that is not on the list.
RECALL_DISTRICTS == <<"D2", "D1">>

\* new Set(RECALL_DISTRICTS)
recallDistrictSet == {RECALL_DISTRICTS[i] : i \in 1..Len(RECALL_DISTRICTS)}

\* votes || 0
Num(v) == IF v = <<>> THEN 0 ELSE v[1]

Row(g, d, c, p, v, e, t) == [geo_key |-> g, electoral_district_name |-> d, candidate_name |-> c, party_name |-> p, votes |-> v, electorate |-> e, total_votes |-> IF e = <<>> THEN <<>> ELSE <<e[1] - 1>>, county_name |-> "C", township_name |-> t, village_name |-> IF g = NULL THEN NULL ELSE "V" \o g]

filterVoteData_anyDistrict(rows) == SelectSeq(rows, LAMBDA row : ~Falsy(row.electoral_district_name))

\* voteData.filter(row => row.electoral_district_name && recallDistrictSet.has(...))
filterVoteData(rows) == SelectSeq(rows, LAMBDA row : ~Falsy(row.electoral_district_name) /\ row.electoral_district_name \in recallDistrictSet)

\* Set.prototype.add on the insertion-ordered members of a Set
SetAdd(members, x) == IF \E i \in 1..Len(members) : members[i] = x THEN members ELSE Append(members, x)

\* Array.prototype.join renders null and undefined as the empty string
JoinElem(x) == IF x = NULL THEN "" ELSE x

\* first forEach (script.js 474-489): one row into districtTownships and districtResults
districtStep(acc, row) ==
    LET d == row.electoral_district_name
        c == Str(row.candidate_name)
        ts == IF ObjHas(acc.districtTownships, d) THEN ObjGet(acc.districtTownships, d) ELSE <<>>
        dr == IF ObjHas(acc.districtResults, d) THEN ObjGet(acc.districtResults, d) ELSE [candidates |-> <<>>]
        cur == IF ObjHas(dr.candidates, c) THEN ObjGet(dr.candidates, c) ELSE [votes |-> 0, party |-> row.party_name]
    IN IF Falsy(d) THEN acc
       ELSE [districtTownships |-> ObjPut(acc.districtTownships, d, SetAdd(ts, row.township_name)),
             districtResults |-> ObjPut(acc.districtResults, d, [candidates |-> ObjPut(dr.candidates, c, [votes |-> cur.votes + Num(row.votes), party |-> cur.party])])]

RECURSIVE districtPass(_, _)
districtPass(acc, rows) == IF rows = <<>> THEN acc ELSE districtPass(districtStep(acc, Head(rows)), Tail(rows))

\* Array.prototype.sort((a, b) => b.votes - a.votes) is stable and descending:
\* the index in votes of the element that ends at each position
sortOrder_tiesReversed(votes) ==
    LET pos(i) == 1 + Cardinality({j \in 1..Len(votes) : votes[j] > votes[i] \/ (votes[j] = votes[i] /\ j > i)})
    IN [p \in 1..Len(votes) |-> CHOOSE i \in 1..Len(votes) : pos(i) = p]

sortOrder(votes) ==
    LET pos(i) == 1 + Cardinality({j \in 1..Len(votes) : votes[j] > votes[i] \/ (votes[j] = votes[i] /\ j < i)})
    IN [p \in 1..Len(votes) |-> CHOOSE i \in 1..Len(votes) : pos(i) = p]

sortByVotesDesc(xs, votes) == [p \in 1..Len(xs) |-> xs[sortOrder(votes)[p]]]

\* script.js 491-496
searchableStringOf(districtName, townships, candidates) ==
    districtName \o " " \o Join([i \in 1..Len(townships) |-> JoinElem(townships[i])], " ") \o " " \o Join(ObjKeys(candidates), " ")

\* script.js 498-502: the first entry of the candidates sorted by votes
districtWinner_last(candidates) ==
    LET sortedCandidates == sortByVotesDesc(candidates, [i \in 1..Len(candidates) |-> candidates[i].val.votes])
    IN [winner |-> sortedCandidates[Len(sortedCandidates)].key, winnerParty |-> sortedCandidates[Len(sortedCandidates)].val.party]

districtWinner(candidates) ==
    LET sortedCandidates == sortByVotesDesc(candidates, [i \in 1..Len(candidates) |-> candidates[i].val.votes])
    IN [winner |-> sortedCandidates[1].key, winnerParty |-> sortedCandidates[1].val.party]

\* the two for-in loops over districtResults (script.js 491-502)
finishDistricts(acc) ==
    [i \in 1..Len(acc.districtResults) |->
        LET e == acc.districtResults[i]
            w == districtWinner(e.val.candidates)
        IN [key |-> e.key,
            val |-> [candidates |-> e.val.candidates,
                     searchableString |-> searchableStringOf(e.key, ObjGet(acc.districtTownships, e.key), e.val.candidates),
                     winner |-> w.winner,
                     winnerParty |-> w.winnerParty]]]

\* second forEach (script.js 504-522): one row into villageResults and geoKeyToDistrictMap
villageStep_lastRowWins(acc, row, districts) ==
    LET g == row.geo_key
        d == row.electoral_district_name
        created == [geo_key |-> g,
                    fullName |-> Str(row.county_name) \o " " \o Str(row.township_name) \o " " \o Str(row.village_name),
                    districtName |-> d,
                    electorate |-> Num(row.electorate),
                    total_votes |-> Num(row.total_votes),
                    candidates |-> <<>>,
                    districtWinnerName |-> IF ObjHas(districts, d) THEN ObjGet(districts, d).winner ELSE "N/A",
                    districtWinnerParty |-> IF ObjHas(districts, d) THEN ObjGet(districts, d).winnerParty ELSE "N/A"]
        v == IF ObjHas(acc.villageResults, g) THEN [created EXCEPT !.candidates = ObjGet(acc.villageResults, g).candidates] ELSE created
    IN IF Falsy(g) \/ Falsy(d) THEN acc
       ELSE [villageResults |-> ObjPut(acc.villageResults, g, [v EXCEPT !.candidates = Append(@, [name |-> row.candidate_name, party |-> row.party_name, votes |-> Num(row.votes)])]),
             geoKeyToDistrictMap |-> ObjPut(acc.geoKeyToDistrictMap, g, d)]

villageStep(acc, row, districts) ==
    LET g == row.geo_key
        d == row.electoral_district_name
        created == [geo_key |-> g,
                    fullName |-> Str(row.county_name) \o " " \o Str(row.township_name) \o " " \o Str(row.village_name),
                    districtName |-> d,
                    electorate |-> Num(row.electorate),
                    total_votes |-> Num(row.total_votes),
                    candidates |-> <<>>,
                    districtWinnerName |-> IF ObjHas(districts, d) THEN ObjGet(districts, d).winner ELSE "N/A",
                    districtWinnerParty |-> IF ObjHas(districts, d) THEN ObjGet(districts, d).winnerParty ELSE "N/A"]
        v == IF ObjHas(acc.villageResults, g) THEN ObjGet(acc.villageResults, g) ELSE created
    IN IF Falsy(g) \/ Falsy(d) THEN acc
       ELSE [villageResults |-> ObjPut(acc.villageResults, g, [v EXCEPT !.candidates = Append(@, [name |-> row.candidate_name, party |-> row.party_name, votes |-> Num(row.votes)])]),
             geoKeyToDistrictMap |-> ObjPut(acc.geoKeyToDistrictMap, g, d)]

RECURSIVE villagePass(_, _, _)
villagePass(acc, rows, districts) == IF rows = <<>> THEN acc ELSE villagePass(villageStep(acc, Head(rows), districts), Tail(rows), districts)

\* script.js 524-529: sort each village's candidates, set leader and runnerUp
\* (an absent leader or runnerUp, null in the code, is <<>>; a present one is <<c>>)
finishVillage_unsorted(village) ==
    LET sorted == village.candidates
    IN [geo_key |-> village.geo_key, fullName |-> village.fullName, districtName |-> village.districtName,
        electorate |-> village.electorate, total_votes |-> village.total_votes, candidates |-> sorted,
        districtWinnerName |-> village.districtWinnerName, districtWinnerParty |-> village.districtWinnerParty,
        leader |-> IF Len(sorted) > 0 THEN <<sorted[1]>> ELSE <<>>,
        runnerUp |-> IF Len(sorted) > 1 THEN <<sorted[2]>> ELSE <<>>]

finishVillage(village) ==
    LET sorted == sortByVotesDesc(village.candidates, [i \in 1..Len(village.candidates) |-> village.candidates[i].votes])
    IN [geo_key |-> village.geo_key, fullName |-> village.fullName, districtName |-> village.districtName,
        electorate |-> village.electorate, total_votes |-> village.total_votes, candidates |-> sorted,
        districtWinnerName |-> village.districtWinnerName, districtWinnerParty |-> village.districtWinnerParty,
        leader |-> IF Len(sorted) > 0 THEN <<sorted[1]>> ELSE <<>>,
        runnerUp |-> IF Len(sorted) > 1 THEN <<sorted[2]>> ELSE <<>>]

\* script.js 468: the three globals as processVoteData resets them before its
\* passes (the variant leaves geoKeyToDistrictMap as an earlier file with a
\* village "Z9" had built it)
resetGlobals_keepMap == [villageResults |-> <<>>, districtResults |-> <<>>, geoKeyToDistrictMap |-> <<[key |-> "Z9", val |-> "D1"]>>]

resetGlobals == [villageResults |-> <<>>, districtResults |-> <<>>, geoKeyToDistrictMap |-> <<>>]

\* processVoteData(voteData): the three globals it rebuilds
processVoteData_dropZeroVotes(rows) ==
    LET filteredVoteData == filterVoteData(rows)
        pass1 == districtPass([districtTownships |-> <<>>, districtResults |-> resetGlobals.districtResults], filteredVoteData)
        districts == finishDistricts(pass1)
        pass2 == villagePass([villageResults |-> resetGlobals.villageResults, geoKeyToDistrictMap |-> resetGlobals.geoKeyToDistrictMap], filteredVoteData, districts)
    IN [villageResults |-> [i \in 1..Len(pass2.villageResults) |-> [key |-> pass2.villageResults[i].key, val |-> finishVillage([pass2.villageResults[i].val EXCEPT !.candidates = SelectSeq(@, LAMBDA c : c.votes > 0)])]],
        districtResults |-> districts,
        geoKeyToDistrictMap |-> pass2.geoKeyToDistrictMap]

processVoteData(rows) ==
    LET filteredVoteData == filterVoteData(rows)
        pass1 == districtPass([districtTownships |-> <<>>, districtResults |-> resetGlobals.districtResults], filteredVoteData)
        districts == finishDistricts(pass1)
        pass2 == villagePass([villageResults |-> resetGlobals.villageResults, geoKeyToDistrictMap |-> resetGlobals.geoKeyToDistrictMap], filteredVoteData, districts)
    IN [villageResults |-> [i \in 1..Len(pass2.villageResults) |-> [key |-> pass2.villageResults[i].key, val |-> finishVillage(pass2.villageResults[i].val)]],
        districtResults |-> districts,
        geoKeyToDistrictMap |-> pass2.geoKeyToDistrictMap]

----------------------------------------------------------------------------
(* Data the loader can be served                                           *)

\* the years offered by #year-selector; each is a key of dataSources
Years == {"2024", "2020"}

\* dataSources[year]: the votes file, and the boundary file all years share
dataSources(year) == [votes |-> "data/" \o year \o "/regional_legislator_votes.csv", geo |-> "data/village.geojson"]

\* the rows Papa.parse yields for a year's votes file
VoteFile(year) ==
    IF year = "2024"
    THEN << Row("1", "D1", "X", "P1", <<2>>, <<10>>, "T1"),
            Row("1", "D1", "Y", "P2", <<1>>, <<10>>, "T1"),
            Row("A1", "D2", "Y", "P2", <<2>>, <<20>>, "T2"),
            Row("2", "DX", "W", "P1", <<2>>, <<20>>, "T3") >>
    ELSE << Row("1", "D2", "Y", "P2", <<2>>, <<10>>, "T1"),
            Row("A1", "D2", "X", "P1", <<1>>, <<20>>, "T2") >>

\* requiredKeys of loadAndDisplayYear (script.js 448)
requiredKeys == {"geo_key", "electoral_district_name", "candidate_name", "party_name", "votes", "electorate", "total_votes", "county_name", "township_name"}

\* a row of a file whose header lacks a column reads undefined there
WithoutColumn(rows, col) ==
    [i \in 1..Len(rows) |-> [f \in DOMAIN rows[i] |-> IF f # col THEN rows[i][f] ELSE IF f \in {"votes", "electorate", "total_votes"} THEN <<>> ELSE NULL]]

\* what Papa.parse can resolve with for a year: the columns of the header and
\* the rows; the year's file, a file without data rows, or the year's file
\* under a header that lacks one required column
FilesOf(rows) ==
    {[kind |-> "complete", columns |-> requiredKeys \cup {"village_name"}, rows |-> rows],
     [kind |-> "noRows", columns |-> requiredKeys \cup {"village_name"}, rows |-> <<>>]}
    \cup {[kind |-> "missingColumn", columns |-> (requiredKeys \cup {"village_name"}) \ {col}, rows |-> WithoutColumn(rows, col)] : col \in requiredKeys}

Served2024 == FilesOf(VoteFile("2024"))

Served2020 == FilesOf(VoteFile("2020"))

ServedFiles(year) == IF year = "2024" THEN Served2024 ELSE Served2020

\* processVoteData of each file, and the winners of the 2024 file
Aggregate2024 == processVoteData(VoteFile("2024"))

Aggregate2020 == processVoteData(VoteFile("2020"))

Aggregated(year) == IF year = "2024" THEN Aggregate2024 ELSE Aggregate2020

\* VILLCODE of the features of data/village.geojson
GeoFeatures == {"1", "2", "A1", "Z9"}

FeaturesOf(geoData) == IF geoData = NULL THEN {} ELSE GeoFeatures

\* what the user can type into #search-input
Queries == {"", " ", "X "}

\* how a year load can end: both fetches resolve and the rows carry the
\* required columns ("ok"); the geo fetch fails; Papa.parse fails to read the
\* file or reports a parse error (either rejects its promise); or the first
\* row lacks a required column
LoadOutcomes == {"ok", "geoFailed", "votesFailed", "schemaError"}

----------------------------------------------------------------------------
(* Selection and search controller                                         *)

NoLayer == [built |-> FALSE, features |-> {}, onMap |-> FALSE]

\* a.localeCompare(b, 'zh-Hant') orders the district names by this rank
LocaleRank(d) == CASE d = "D1" -> 1 [] d = "D2" -> 2 [] OTHER -> 3

\* districtsToShow.sort((a, b) => a.localeCompare(b, 'zh-Hant'))
sortDistricts(ds) ==
    LET pos(i) == 1 + Cardinality({j \in 1..Len(ds) : LocaleRank(ds[j]) < LocaleRank(ds[i]) \/ (LocaleRank(ds[j]) = LocaleRank(ds[i]) /\ j < i)})
    IN [p \in 1..Len(ds) |-> ds[CHOOSE i \in 1..Len(ds) : pos(i) = p]]

\* winners2024[districtName] || ''
winnerNameOf_noFallback(winners, districtName) == IF ObjHas(winners, districtName) THEN Str(ObjGet(winners, districtName)) ELSE "undefined"

winnerNameOf(winners, districtName) == IF ObjHas(winners, districtName) /\ ~Falsy(ObjGet(winners, districtName)) THEN ObjGet(winners, districtName) ELSE ""

OptionValues(sel) == {sel.options[i].value : i \in 1..Len(sel.options)}

\* the handlers below work on the selection state u:
\*   [recallDistricts, districtSelector, currentSelectedDistrict, geoJsonLayer,
\*    infoPanel, built], built counting the renderMapLayers calls of the handler
UI == [recallDistricts |-> recallDistricts, districtSelector |-> districtSelector, currentSelectedDistrict |-> currentSelectedDistrict, geoJsonLayer |-> geoJsonLayer, infoPanel |-> infoPanel, built |-> 0]

\* populateDistrictFilter(districtsToShow): the rebuilt <select>
populateOptions_autoselect(districtsToShow, searchValue, winners) ==
    LET isSearchResult == Len(Trim(searchValue)) > 0
        placeholder == <<[value |-> "none", text |-> "- select a district -"]>>
        allOption == IF Len(districtsToShow) > 0
                     THEN <<[value |-> "all", text |-> IF isSearchResult THEN "show all " \o ToString(Len(districtsToShow)) \o " results" ELSE "show all districts (slow)"]>>
                     ELSE <<>>
        sorted == sortDistricts(districtsToShow)
        named == [i \in 1..Len(sorted) |-> [value |-> sorted[i], text |-> IF winnerNameOf(winners, sorted[i]) # "" THEN sorted[i] \o ":" \o winnerNameOf(winners, sorted[i]) ELSE sorted[i]]]
    IN [options |-> placeholder \o allOption \o named, value |-> IF Len(sorted) = 1 THEN sorted[1] ELSE "none"]

populateOptions(districtsToShow, searchValue, winners) ==
    LET isSearchResult == Len(Trim(searchValue)) > 0
        placeholder == <<[value |-> "none", text |-> "- select a district -"]>>
        allOption == IF Len(districtsToShow) > 0
                     THEN <<[value |-> "all", text |-> IF isSearchResult THEN "show all " \o ToString(Len(districtsToShow)) \o " results" ELSE "show all districts (slow)"]>>
                     ELSE <<>>
        sorted == sortDistricts(districtsToShow)
        named == [i \in 1..Len(sorted) |-> [value |-> sorted[i], text |-> IF winnerNameOf(winners, sorted[i]) # "" THEN sorted[i] \o ":" \o winnerNameOf(winners, sorted[i]) ELSE sorted[i]]]
    IN [options |-> placeholder \o allOption \o named, value |-> "none"]

\* populateDistrictFilter() with the default argument: RECALL_DISTRICTS itself
\* is sorted in place and listed
populateDistrictFilterDefault(u, searchValue, winners) ==
    [u EXCEPT !.recallDistricts = sortDistricts(@), !.districtSelector = populateOptions(u.recallDistricts, searchValue, winners)]

\* populateDistrictFilter(matchedDistricts)
populateDistrictFilter(u, districtsToShow, searchValue, winners) ==
    [u EXCEPT !.districtSelector = populateOptions(districtsToShow, searchValue, winners)]

\* RECALL_DISTRICTS.filter(...) of handleSearch (script.js 308-316)
matchedDistricts_indexOnly(recall, query, winners, districts) ==
    SelectSeq(recall, LAMBDA districtName :
        ObjHas(districts, districtName) /\ Includes(ToLowerCase(ObjGet(districts, districtName).searchableString), query))

matchedDistricts(recall, query, winners, districts) ==
    SelectSeq(recall, LAMBDA districtName :
        LET searchableString == ToLowerCase(districtName \o " " \o winnerNameOf(winners, districtName))
            fullSearchableString == IF ObjHas(districts, districtName) THEN ToLowerCase(ObjGet(districts, districtName).searchableString) ELSE ""
        IN Includes(searchableString, query) \/ Includes(fullSearchableString, query))

handleSearch(u, searchValue, winners, districts) ==
    LET query == Trim(ToLowerCase(searchValue))
    IN IF query = ""
       THEN populateDistrictFilterDefault(u, searchValue, winners)
       ELSE populateDistrictFilter(u, matchedDistricts(u.recallDistricts, query, winners, districts), searchValue, winners)

\* map.removeLayer(geoJsonLayer) when there is one; features are the features
\* the layer shows on the map
removeLayer(layer) == IF layer.built THEN [layer EXCEPT !.onMap = FALSE, !.features = {}] ELSE layer

resetInfoPanel(u) == [u EXCEPT !.infoPanel = "start"]

clearUI(u) == resetInfoPanel([u EXCEPT !.geoJsonLayer = removeLayer(@)])

\* the filter of L.geoJSON in renderMapLayers (script.js 541-553)
visibleFeatures_allShowsEvery(sel, geoData, geoMap) ==
    {f \in FeaturesOf(geoData) :
        /\ ObjHas(geoMap, f)
        /\ ~Falsy(ObjGet(geoMap, f))
        /\ sel.value # "all" => ObjGet(geoMap, f) = sel.value}

visibleFeatures(sel, geoData, geoMap) ==
    {f \in FeaturesOf(geoData) :
        /\ ObjHas(geoMap, f)
        /\ ~Falsy(ObjGet(geoMap, f))
        /\ IF sel.value = "all" THEN ObjGet(geoMap, f) \in OptionValues(sel) ELSE ObjGet(geoMap, f) = sel.value}

renderMapLayers(u, geoData, geoMap) ==
    [u EXCEPT !.geoJsonLayer = [built |-> TRUE, features |-> visibleFeatures(u.districtSelector, geoData, geoMap), onMap |-> TRUE], !.built = @ + 1]

\* the change listener of #district-selector (script.js 269-275); the browser
\* has set districtSelector.value to the chosen option before it runs
districtSelectorChange(u, value, geoData, geoMap) ==
    LET chosen == [u EXCEPT !.districtSelector.value = value]
    IN IF value = "none" THEN chosen
       ELSE resetInfoPanel(renderMapLayers([chosen EXCEPT !.currentSelectedDistrict = value], geoData, geoMap))

clearSearch_keepList(u, winners) ==
    clearUI([u EXCEPT !.districtSelector.value = "none", !.currentSelectedDistrict = "none"])

\* clearSearch after searchInput.value = '' (script.js 325-328)
clearSearch(u, winners) ==
    clearUI([populateDistrictFilterDefault(u, "", winners) EXCEPT !.districtSelector.value = "none", !.currentSelectedDistrict = "none"])

----------------------------------------------------------------------------
(* Loading: load2024Winners and loadAndDisplayYear                         *)

\* at most this many loadAndDisplayYear calls are awaiting their fetches
MaxLoads == 2

\* load2024Winners (script.js 397-419): the winner of each allow-listed district
RECURSIVE assignWinners(_, _)
assignWinners(winners, districts) ==
    IF districts = <<>> THEN winners
    ELSE assignWinners(ObjPut(winners, Head(districts).key, districtWinner(Head(districts).val.candidates).winner), Tail(districts))

load2024Winners(winners, rows) == assignWinners(winners, districtPass([districtTownships |-> <<>>, districtResults |-> <<>>], filterVoteData(rows)).districtResults)

\* the test of script.js 449 passes: voteDataRows[0] exists and has every
\* required key (with header: true a row has the columns of the header)
hasRequiredKeys_anyRow(file) == Len(file.rows) > 0

hasRequiredKeys(file) == Len(file.rows) > 0 /\ requiredKeys \subseteq file.columns

\* how the try block of loadAndDisplayYear ends, given how the fetches ended
loadOutcome(fetched, file) == IF fetched # "resolved" THEN fetched ELSE IF hasRequiredKeys(file) THEN "ok" ELSE "schemaError"

\* the year whose file the aggregate in effect was built from, "" when none
\* has been built
AggregatedYear == IF voteData = <<>> THEN "" ELSE IF voteData = VoteFile("2024") THEN "2024" ELSE IF voteData = VoteFile("2020") THEN "2020" ELSE "other"

setLoadingState(u, isLoading) == IF isLoading THEN [u EXCEPT !.infoPanel = "loading"] ELSE resetInfoPanel(u)

\* loadAndDisplayYear after its await (script.js 447-464): the try body once
\* the rows are aggregated, or the catch; then the finally
loadFinished_render(u, outcome, searchValue, winners, geoData, geoMap) ==
    IF outcome = "ok"
    THEN setLoadingState(renderMapLayers(populateDistrictFilterDefault(u, searchValue, winners), geoData, geoMap), FALSE)
    ELSE setLoadingState([u EXCEPT !.infoPanel = "failed"], FALSE)

loadFinished(u, outcome, searchValue, winners, geoData, geoMap) ==
    IF outcome = "ok"
    THEN setLoadingState(clearUI([populateDistrictFilterDefault(u, searchValue, winners) EXCEPT !.currentSelectedDistrict = "none"]), FALSE)
    ELSE setLoadingState([u EXCEPT !.infoPanel = "failed"], FALSE)

\* the selection state a handler leaves, and what the handler was
SetUILoad(u, type, arg, served, prev) ==
    /\ recallDistricts' = u.recallDistricts
    /\ districtSelector' = u.districtSelector
    /\ currentSelectedDistrict' = u.currentSelectedDistrict
    /\ geoJsonLayer' = u.geoJsonLayer
    /\ infoPanel' = u.infoPanel
    /\ ev' = [type |-> type, arg |-> arg, built |-> u.built, served |-> served, prev |-> prev]

SetUI(u, type, arg) == SetUILoad(u, type, arg, "", "")

\* loadAndDisplayYear(year) up to its await (script.js 429-446): the geo fetch
\* is issued only when nothing is cached
StartLoad_cancelEarlier(year) == loads' = SetToBag({[year |-> year, geoFetch |-> currentGeoData = NULL]})

StartLoad(year) == loads' = loads (+) SetToBag({[year |-> year, geoFetch |-> currentGeoData = NULL]})

\* load2024Winners settles; the DOMContentLoaded handler resumes (script.js 252-256)
Winners2024Settled ==
    \E ok \in BOOLEAN :
        /\ pc = "load2024Winners"
        /\ BagCardinality(loads) < MaxLoads
        /\ pc' = "done"
        /\ winners2024' = IF ok THEN load2024Winners(winners2024, VoteFile("2024")) ELSE winners2024
        /\ StartLoad(yearSelector)
        /\ SetUI(setLoadingState(UI, TRUE), "load2024Winners", IF ok THEN "ok" ELSE "failed")
        /\ annotationList' = renderAnnotationList(AnnState(annotations, annotationLayer, annotationList)).annotationList
        /\ UNCHANGED <<called, annotations, annotationLayer, annCall, yearSelector, currentGeoData, searchInput, aggVars>>

\* change of #year-selector (script.js 277)
YearChange ==
    \E year \in Years \ {yearSelector} :
        /\ BagCardinality(loads) < MaxLoads
        /\ yearSelector' = year
        /\ StartLoad(year)
        /\ SetUI(setLoadingState(UI, TRUE), "yearChange", "")
        /\ UNCHANGED <<called, annVars, pc, winners2024, currentGeoData, searchInput, aggVars>>

\* currentGeoData once the load has settled (script.js 447): the geoData the
\* Promise.all resolved with, which is the cache the load started with or the
\* boundary file it fetched; a rejected Promise.all skips the assignment
geoDataSettled_clearOnFailure(l, fetched, cached) == IF fetched = "resolved" THEN dataSources(l.year).geo ELSE NULL

geoDataSettled(l, fetched, cached) == IF fetched = "resolved" THEN dataSources(l.year).geo ELSE cached

\* the Promise.all of a load settles and loadAndDisplayYear runs to its end:
\* a fetch has failed, or both have resolved and Papa.parse has handed over a file
LoadSettled ==
    \E l \in BagToSet(loads), fetched \in {"resolved", "geoFailed", "votesFailed"} :
        \E r \in {[outcome |-> loadOutcome(fetched, file), served |-> IF fetched = "resolved" THEN file.kind ELSE "", rows |-> IF loadOutcome(fetched, file) = "ok" THEN file.rows ELSE <<>>] : file \in ServedFiles(l.year)} :
            LET agg == IF r.outcome = "ok"
                       THEN IF r.rows = VoteFile(l.year) THEN Aggregated(l.year) ELSE processVoteData(r.rows)
                       ELSE [villageResults |-> villageResults, districtResults |-> districtResults, geoKeyToDistrictMap |-> geoKeyToDistrictMap]
            IN /\ fetched = "geoFailed" => l.geoFetch
               /\ loads' = loads (-) SetToBag({l})
               /\ currentGeoData' = geoDataSettled(l, fetched, currentGeoData)
               /\ voteData' = IF r.outcome = "ok" THEN r.rows ELSE voteData
               /\ villageResults' = agg.villageResults
               /\ districtResults' = agg.districtResults
               /\ geoKeyToDistrictMap' = agg.geoKeyToDistrictMap
               /\ SetUILoad(loadFinished(UI, r.outcome, searchInput, winners2024, currentGeoData', agg.geoKeyToDistrictMap), "loadSettled", r.outcome, r.served, IF r.outcome = "ok" THEN AggregatedYear ELSE "")
               /\ UNCHANGED <<called, annVars, pc, winners2024, yearSelector, searchInput>>

\* the user picks an option of #district-selector (the placeholder is disabled)
DistrictChange ==
    \E value \in OptionValues(districtSelector) \ {"none", districtSelector.value} :
        /\ SetUI(districtSelectorChange(UI, value, currentGeoData, geoKeyToDistrictMap), "districtChange", "")
        /\ UNCHANGED <<called, annVars, pc, winners2024, loads, yearSelector, currentGeoData, searchInput, aggVars>>

\* input in #search-input (script.js 296, 301-321)
SearchInput ==
    \E value \in Queries \ {searchInput} :
        /\ searchInput' = value
        /\ SetUI(handleSearch(UI, value, winners2024, districtResults), "handleSearch", searchInput)
        /\ UNCHANGED <<called, annVars, pc, winners2024, loads, yearSelector, currentGeoData, aggVars>>

\* click on #clear-search-btn (script.js 297, 323-329)
ClearSearch ==
    /\ searchInput' = ""
    /\ SetUI(clearSearch(UI, winners2024), "clearSearch", searchInput)
    /\ UNCHANGED <<called, annVars, pc, winners2024, loads, yearSelector, currentGeoData, aggVars>>

\* click on a village of the vote layer: updateInfoPanel(village, layer)
VillageClick ==
    \E k \in geoJsonLayer.features :
        /\ geoJsonLayer.onMap
        /\ ObjHas(villageResults, k)
        /\ SetUI([UI EXCEPT !.infoPanel = "village"], "villageClick", "")
        /\ UNCHANGED <<called, annVars, pc, winners2024, loads, yearSelector, currentGeoData, searchInput, aggVars>>

InitAnnotations ==
    /\ annotations = <<>>
    /\ annotationLayer = <<>>
    /\ annotationList = <<>>
    /\ annCall = [op |-> "none", key |-> "", blank |-> FALSE, present |-> FALSE, alerts |-> <<>>, renders |-> 0, inserted |-> <<>>]

InitSelection ==
    /\ pc = "load2024Winners"
    /\ winners2024 = <<>>
    /\ loads = EmptyBag
    /\ currentGeoData = NULL
    /\ searchInput = ""
    /\ recallDistricts = RECALL_DISTRICTS
    /\ districtSelector = [options |-> <<>>, value |-> ""]
    /\ currentSelectedDistrict = "none"
    /\ geoJsonLayer = NoLayer
    /\ infoPanel = ""
    /\ ev = [type |-> "DOMContentLoaded", arg |-> "", built |-> 0, served |-> "", prev |-> ""]

InitAggregate ==
    /\ voteData = <<>>
    /\ villageResults = <<>>
    /\ districtResults = <<>>
    /\ geoKeyToDistrictMap = <<>>

\* no classifier and no export has been called
NoCall == [fn |-> "none"]

\* the page once the DOMContentLoaded handler awaits load2024Winners
Init ==
    /\ InitAnnotations
    /\ InitSelection
    /\ InitAggregate
    /\ called = NoCall
    /\ yearSelector = "2024"

Next ==
    \/ Winners2024Settled
    \/ YearChange
    \/ LoadSettled
    \/ DistrictChange
    \/ SearchInput
    \/ ClearSearch
    \/ VillageClick

Spec == Init /\ [][Next]_vars

----------------------------------------------------------------------------
(* The annotation store on its own: the save and delete buttons            *)

NextAnnotations ==
    \/ SaveAnnotationClick
    \/ DeleteAnnotationClick

SpecAnnotations == Init /\ [][NextAnnotations]_vars

----------------------------------------------------------------------------
(* processVoteData on its own, over bounded votes files                    *)

\* a votes file has at most this many rows
MaxRows == 3

\* the rows a file is made of: two villages of district D1 with candidates X
\* and Y, the same candidate under another party, a village of D2, the geo_key
\* "1" under D2 as well, and rows without geo_key, without district, outside
\* the allow-list and without votes
InputRows ==
    {Row(g, "D1", c, IF c = "X" THEN "P1" ELSE "P2", <<v>>, <<10 * v>>, "T" \o g) : g \in {"1", "A1"}, c \in {"X", "Y"}, v \in {1, 2}}
    \cup {Row("1", "D1", "X", "P2", <<1>>, <<30>>, "T2"),
          Row("A1", "D2", "Y", "P2", <<2>>, <<20>>, "T2"),
          Row("1", "D2", "X", "P1", <<1>>, <<20>>, "T2"),
          Row(NULL, "D1", "X", "P1", <<2>>, <<20>>, "T9"),
          Row(NULL, "D2", "W", "P2", <<1>>, <<10>>, "T1"),
          Row("1", NULL, "W", "P1", <<2>>, <<20>>, "T9"),
          Row("A1", "DX", "W", "P2", <<2>>, <<20>>, "T9"),
          Row("1", "D1", "Y", "P2", <<>>, <<>>, "T1")}

VoteFiles == UNION {[1..n -> InputRows] : n \in 0..MaxRows}

InitInput ==
    /\ InitAnnotations
    /\ InitSelection
    /\ yearSelector = "2024"
    /\ called = NoCall
    /\ voteData \in VoteFiles
    /\ villageResults = <<>>
    /\ districtResults = <<>>
    /\ geoKeyToDistrictMap = <<>>

\* processVoteData(voteData) (script.js 452, 467-530)
ProcessVoteData ==
    /\ ev.type # "processVoteData"
    /\ LET agg == processVoteData(voteData)
       IN /\ villageResults' = agg.villageResults
          /\ districtResults' = agg.districtResults
          /\ geoKeyToDistrictMap' = agg.geoKeyToDistrictMap
    /\ ev' = [type |-> "processVoteData", arg |-> "", built |-> 0, served |-> "", prev |-> ""]
    /\ UNCHANGED <<called, annVars, pc, winners2024, loads, yearSelector, currentGeoData, searchInput, recallDistricts, districtSelector, currentSelectedDistrict, geoJsonLayer, infoPanel, voteData>>

SpecAggregate == InitInput /\ [][ProcessVoteData]_vars

----------------------------------------------------------------------------
(* JavaScript numbers in the colour classifiers: IEEE 754 double precision *)

\* A double other than zero is [e, m]: m is a sequence of Precision bits that
\* begins with 1, and the value is 0.m[1]m[2]... times 2^e. Integers as small
\* as the ones used here are exact as doubles and stay TLA+ integers until
\* they are divided.
Precision == 53

FZero == [e |-> 0, m |-> <<>>]

Zeros(k) == [i \in 1..k |-> 0]

\* n / d scaled by a power of two into [1/2, 1)
RECURSIVE Normalise(_, _, _)
Normalise(n, d, e) ==
    IF n >= d THEN Normalise(n, 2 * d, e + 1)
    ELSE IF 2 * n < d THEN Normalise(2 * n, d, e - 1)
    ELSE [n |-> n, d |-> d, e |-> e]

\* bit i of the k-bit number q, counted from the most significant
BitOf(q, k, i) == (q \div 2^(k - i)) % 2

\* the first 54 bits of the binary expansion of r / d (0 <= r < d < 2^12), and
\* what is left: long division, eighteen bits at a time
QuotientBits(r, d) ==
    LET q1 == (r * 2^18) \div d
        r1 == (r * 2^18) % d
        q2 == (r1 * 2^18) \div d
        r2 == (r1 * 2^18) % d
        q3 == (r2 * 2^18) \div d
        r3 == (r2 * 2^18) % d
    IN [bits |-> [i \in 1..54 |-> IF i <= 18 THEN BitOf(q1, 18, i) ELSE IF i <= 36 THEN BitOf(q2, 18, i - 18) ELSE BitOf(q3, 18, i - 36)],
        rem |-> r3]

\* add one in the last place of a bit sequence that is not all ones
Increment(bits) ==
    LET z == CHOOSE i \in 1..Len(bits) : bits[i] = 0 /\ \A j \in (i + 1)..Len(bits) : bits[j] = 1
    IN [i \in 1..Len(bits) |-> IF i < z THEN bits[i] ELSE IF i = z THEN 1 ELSE 0]

\* round to nearest, ties to even: bits begins with 1 and is the expansion of
\* the exact value times 2^-e, sticky tells whether more non-zero bits follow
RoundBits(bits, e, sticky) ==
    IF Len(bits) <= Precision THEN [e |-> e, m |-> bits \o Zeros(Precision - Len(bits))]
    ELSE LET kept == SubSeq(bits, 1, Precision)
             guard == bits[Precision + 1]
             more == sticky \/ \E i \in (Precision + 2)..Len(bits) : bits[i] = 1
             up == guard = 1 /\ (more \/ kept[Precision] = 1)
         IN IF ~up THEN [e |-> e, m |-> kept]
            ELSE IF \A i \in 1..Precision : kept[i] = 1 THEN [e |-> e + 1, m |-> <<1>> \o Zeros(Precision - 1)]
            ELSE [e |-> e, m |-> Increment(kept)]

\* n / d for integers n >= 0 and d > 0
FDiv(n, d) ==
    IF n = 0 THEN FZero
    ELSE LET s == Normalise(n, d, 0)
             q == QuotientBits(s.n, s.d)
         IN RoundBits(q.bits, s.e, q.rem # 0)

\* x < y for doubles that are not negative
FLess(x, y) ==
    IF y = FZero THEN FALSE
    ELSE IF x = FZero THEN TRUE
    ELSE IF x.e # y.e THEN x.e < y.e
    ELSE \E i \in 1..Precision : x.m[i] < y.m[i] /\ \A j \in 1..(i - 1) : x.m[j] = y.m[j]

\* X - Y for bit sequences of one length with X >= Y: position i borrows when
\* what follows it in X is less than what follows it in Y
SubBits(X, Y) ==
    LET borrow(i) == IF \E j \in (i + 1)..Len(X) : X[j] < Y[j] /\ \A k \in (i + 1)..(j - 1) : X[k] = Y[k] THEN 1 ELSE 0
    IN [i \in 1..Len(X) |-> (X[i] - Y[i] - borrow(i) + 2) % 2]

\* x - y for doubles x >= y >= 0: the exact difference, rounded
FSub(x, y) ==
    IF y = FZero THEN x
    ELSE LET shift == x.e - y.e
             diff == SubBits(x.m \o Zeros(shift), Zeros(shift) \o y.m)
         IN IF \A i \in 1..Len(diff) : diff[i] = 0 THEN FZero
            ELSE LET lead == CHOOSE i \in 1..Len(diff) : diff[i] = 1 /\ \A j \in 1..(i - 1) : diff[j] = 0
                 IN RoundBits(SubSeq(diff, lead, Len(diff)), x.e - (lead - 1), FALSE)

\* Math.abs(x - y) for doubles that are not negative
FAbsDiff(x, y) == IF FLess(x, y) THEN FSub(y, x) ELSE FSub(x, y)

----------------------------------------------------------------------------
(* The colour classifiers on their own                                     *)

KMT_PARTY_NAME == "KMT"

DPP_PARTY_NAME == "DPP"

\* getColor(village) of version 20 (script.js 617-636); the village, its leader
\* and its runnerUp are <<x>> when present and <<>> when null or undefined
getColor(village) ==
    IF village = <<>> \/ village[1].leader = <<>> \/ village[1].runnerUp = <<>> \/ village[1].electorate = 0
    THEN "#cccccc"
    ELSE LET leaderTurnout == FDiv(village[1].leader[1].votes, village[1].electorate)
             runnerUpTurnout == FDiv(village[1].runnerUp[1].votes, village[1].electorate)
             turnoutDiff == FAbsDiff(leaderTurnout, runnerUpTurnout)
         IN IF FLess(turnoutDiff, FDiv(1, 20)) THEN "#ef4444"
            ELSE IF village[1].leader[1].party = KMT_PARTY_NAME THEN "#3b82f6"
            ELSE IF village[1].leader[1].party = DPP_PARTY_NAME THEN "#16a34a"
            ELSE "rgba(0, 0, 0, 0.4)"

\* marginPercentage of the first version (script.js 128-130):
\* (winner_votes - opponent_votes) / (winner_votes + opponent_votes), with its
\* sign; 0 / 0 is NaN
marginPercentageOf(winner_votes, opponent_votes) ==
    IF winner_votes + opponent_votes = 0 THEN [kind |-> "NaN", mag |-> FZero]
    ELSE IF winner_votes < opponent_votes THEN [kind |-> "negative", mag |-> FDiv(opponent_votes - winner_votes, winner_votes + opponent_votes)]
    ELSE [kind |-> "number", mag |-> FDiv(winner_votes - opponent_votes, winner_votes + opponent_votes)]

\* getColor(percentage) of the first version (script.js 16-20): a comparison
\* with NaN is false, a negative number is below both thresholds
getColorByMargin(percentage) ==
    IF percentage.kind = "NaN" THEN "#2563eb"
    ELSE IF percentage.kind = "negative" \/ FLess(percentage.mag, FDiv(1, 20)) THEN "#ef4444"
    ELSE IF FLess(percentage.mag, FDiv(3, 20)) THEN "#a78bfa"
    ELSE "#2563eb"

\* the vote counts and electorates the classifiers are run on
MaxVotes == 7

VoteCounts == 0..MaxVotes \cup {17, 19, 21, 23}

Electorates == {0, 10, 20, 40, 100}

Parties == {KMT_PARTY_NAME, DPP_PARTY_NAME, "P3"}

\* villages as processVoteData leaves them (only what getColor reads), and
\* the village a boundary feature has no data for
StyledVillages ==
    {<<>>}
    \cup {<<[leader |-> <<[votes |-> lv, party |-> p]>>, runnerUp |-> <<[votes |-> rv, party |-> "P3"]>>, electorate |-> e]>> :
             lv \in 0..MaxVotes, rv \in 0..MaxVotes, e \in Electorates, p \in Parties}
    \cup {<<[leader |-> <<[votes |-> lv, party |-> p]>>, runnerUp |-> <<>>, electorate |-> e]>> : lv \in 0..MaxVotes, e \in Electorates, p \in Parties}
    \cup {<<[leader |-> <<>>, runnerUp |-> <<>>, electorate |-> e]>> : e \in Electorates}

\* the style callback of the vote layer colours a feature (script.js 555-557);
\* each classifier is run once, on any of its inputs
GetColor ==
    \E village \in StyledVillages :
        /\ called = NoCall
        /\ called' = [fn |-> "getColor", arg |-> village, result |-> getColor(village)]
        /\ UNCHANGED <<annVars, selVars, aggVars>>

\* initialize of the first version colours the marker of a row (script.js 125-133)
InitializeRow ==
    \E winner_votes \in VoteCounts, opponent_votes \in VoteCounts :
        /\ called = NoCall
        /\ called' = [fn |-> "initialize", arg |-> [winner_votes |-> winner_votes, opponent_votes |-> opponent_votes],
                      result |-> getColorByMargin(marginPercentageOf(winner_votes, opponent_votes))]
        /\ UNCHANGED <<annVars, selVars, aggVars>>

NextColor ==
    \/ GetColor
    \/ InitializeRow

SpecColor == Init /\ [][NextColor]_vars

----------------------------------------------------------------------------
(* The exports on their own: exportToCSV, exportToKML, downloadFile        *)

\* String.prototype.replace(/c/g, r) for a single character c
RECURSIVE ReplaceAll(_, _, _)
ReplaceAll(s, c, r) ==
    IF s = "" THEN "" ELSE (IF CharAt(s, 1) = c THEN r ELSE CharAt(s, 1)) \o ReplaceAll(SubSeq(s, 2, Len(s)), c, r)

\* what an export has done: the alerts it raised and its downloadFile calls
ExportState == [alerts |-> <<>>, downloads |-> <<>>]

\* downloadFile(content, fileName, mimeType) (script.js 818-826): the file the
\* browser is handed; a parameter that gets no argument is undefined
downloadFile(st, content, fileName, mimeType) ==
    [st EXCEPT !.downloads = Append(@, [content |-> content, fileName |-> fileName, mimeType |-> mimeType])]

\* exportToCSV (script.js 828-837)
exportToCSV(st, store) ==
    IF Len(ObjKeys(store)) = 0 THEN alert(st, "nothing to export")
    ELSE LET headers == <<"name", "latitude", "longitude", "note">>
             values == ObjValues(store)
             rows == [i \in 1..Len(values) |->
                         <<JoinElem(values[i].name), ToString(values[i].lat), ToString(values[i].lng), "\"" \o ReplaceAll(values[i].note, "\"", "\"\"") \o "\"">>]
             csvContent == Join(<<Join(headers, ",")>> \o [i \in 1..Len(rows) |-> Join(rows[i], ",")], "\n")
         IN downloadFile(st, csvContent, "annotations.csv", "text/csv;charset=utf-8;")

\* exportToKML (script.js 839-862); the document name of the source is not
\* ASCII and is written "My map annotations" here
exportToKML(st, store) ==
    IF Len(ObjKeys(store)) = 0 THEN alert(st, "nothing to export")
    ELSE LET values == ObjValues(store)
             kmlPlacemarks == Join([i \in 1..Len(values) |->
                 "\n        <Placemark>\n            <name>" \o Str(values[i].name) \o "</name>\n            <description>"
                 \o ReplaceAll(ReplaceAll(ReplaceAll(values[i].note, "&", "&amp;"), "<", "&lt;"), ">", "&gt;")
                 \o "</description>\n            <Point>\n                <coordinates>" \o ToString(values[i].lng) \o "," \o ToString(values[i].lat)
                 \o ",0</coordinates>\n            </Point>\n        </Placemark>\n    "], "")
             kmlContent == "<?xml version=\"1.0\" encoding=\"UTF-8\"?>\n<kml xmlns=\"http://www.opengis.net/kml/2.2\">\n    <Document>\n        <name>My map annotations</name>\n        "
                 \o kmlPlacemarks \o "\n    </Document>\n</kml>"
         IN downloadFile(st, kmlContent, "application/vnd.google-earth.kml+xml", NULL)

\* names and notes of the annotations that are exported, and the stores: up to
\* two annotations, saved through saveAnnotation
ExportNames == {"C T V", "C T a,b"}

ExportNotes == {"n", "a,b", "say \"q\"", "l1\nl2", "a<b&c"}

ExportStores ==
    {<<>>}
    \cup {<<[key |-> "A1", val |-> [name |-> name, note |-> note, lat |-> 1, lng |-> 2]]>> : name \in ExportNames, note \in ExportNotes}
    \cup {<<[key |-> "A1", val |-> [name |-> n1, note |-> t1, lat |-> 1, lng |-> 2]], [key |-> "B2", val |-> [name |-> n2, note |-> t2, lat |-> 2, lng |-> 1]]>> :
             n1 \in ExportNames, t1 \in ExportNotes, n2 \in ExportNames, t2 \in ExportNotes}

\* the page with some annotations saved
InitExport ==
    /\ InitSelection
    /\ InitAggregate
    /\ yearSelector = "2024"
    /\ called = NoCall
    /\ annotations \in ExportStores
    /\ annotationLayer = [i \in 1..Len(annotations) |-> [geoKey |-> annotations[i].key, lat |-> annotations[i].val.lat, lng |-> annotations[i].val.lng, popup |-> <<annotations[i].val.name, annotations[i].val.note>>]]
    /\ annotationList = renderAnnotationList(AnnState(annotations, <<>>, <<>>)).annotationList
    /\ annCall = [op |-> "none", key |-> "", blank |-> FALSE, present |-> FALSE, alerts |-> <<>>, renders |-> 0, inserted |-> ObjKeys(annotations)]

\* click on the CSV export button
ExportToCSVClick ==
    /\ called = NoCall
    /\ called' = [fn |-> "exportToCSV"] @@ exportToCSV(ExportState, annotations)
    /\ UNCHANGED <<annVars, selVars, aggVars>>

\* click on the KML export button
ExportToKMLClick ==
    /\ called = NoCall
    /\ called' = [fn |-> "exportToKML"] @@ exportToKML(ExportState, annotations)
    /\ UNCHANGED <<annVars, selVars, aggVars>>

NextExport ==
    \/ ExportToCSVClick
    \/ ExportToKMLClick

SpecExport == InitExport /\ [][NextExport]_vars

----------------------------------------------------------------------------
(* Properties                                                              *)

ListedKeys == {annotationList[i].geoKey : i \in 1..Len(annotationList)}

\* C1: the store never holds an annotation whose note is empty or only white
\* space, and a save with such a note acts as deleteAnnotation(key): afterwards
\* neither the store nor the rendered list has the key, and the only alert is
\* the one of a deletion that removed something.
C1_NoBlankNoteStored ==
    /\ \A i \in 1..Len(annotations) : Trim(annotations[i].val.note) # ""
    /\ (annCall.op = "save" /\ annCall.blank) =>
        /\ ~ObjHas(annotations, annCall.key)
        /\ annCall.key \notin ListedKeys
        /\ annCall.alerts = IF annCall.present THEN <<"deleted">> ELSE <<>>

\* a save with a blank note has just removed a stored annotation, others remain
C1_Witness == annCall.op = "save" /\ annCall.blank /\ annCall.present /\ Len(annotations) > 0

\* C2: deleteAnnotation(key) for a key that is not stored changes neither the
\* store nor the marker layer nor the rendered list, and raises no alert.
C2_DeleteAbsentIsNoOp ==
    [][(annCall'.op = "delete" /\ ~annCall'.present) =>
        /\ annotations' = annotations
        /\ annotationLayer' = annotationLayer
        /\ annotationList' = annotationList
        /\ annCall'.alerts = <<>>
        /\ annCall'.renders = 0]_vars

\* a delete of an absent key has run on a store that holds other annotations
C2_Witness == annCall.op = "delete" /\ ~annCall.present /\ Len(annotations) > 0 /\ Len(annotationLayer) > 0

\* C3: renderMapLayers runs only in the change handler of the district selector
\* with a value other than 'none'; after a successful year load the selector
\* is on 'none', currentSelectedDistrict is 'none' and no vote layer is on the map.
C3_RenderOnlyOnDistrictChange ==
    /\ ev.built > 0 => (ev.type = "districtChange" /\ districtSelector.value # "none")
    /\ (ev.type = "loadSettled" /\ ev.arg = "ok") =>
        /\ districtSelector.value = "none"
        /\ currentSelectedDistrict = "none"
        /\ ~geoJsonLayer.onMap

\* a year load has succeeded after a vote layer had been rendered
C3_Witness == ev.type = "loadSettled" /\ ev.arg = "ok" /\ geoJsonLayer.built

DistrictOptions == SelectSeq(districtSelector.options, LAMBDA o : o.value \notin {"none", "all"})

\* C4: after handleSearch the selector is on the placeholder 'none', whatever
\* was selected before and however many districts match.
C4_SearchResetsSelection == ev.type = "handleSearch" => districtSelector.value = "none"

\* a query matching exactly one district was typed while a district was selected
C4_Witness == ev.type = "handleSearch" /\ Trim(searchInput) # "" /\ Len(DistrictOptions) = 1 /\ currentSelectedDistrict \notin {"none", "all"}

\* C5: once the query is empty or blank again, by typing or by clearSearch,
\* the selector lists every allow-listed district once and is on 'none'.
C5_EmptyQueryRestoresList ==
    (ev.type \in {"handleSearch", "clearSearch"} /\ Trim(searchInput) = "") =>
        /\ {DistrictOptions[i].value : i \in 1..Len(DistrictOptions)} = recallDistrictSet
        /\ Len(DistrictOptions) = Cardinality(recallDistrictSet)
        /\ districtSelector.value = "none"

\* clearSearch has run after a query that had narrowed the list
C5_Witness == ev.type = "clearSearch" /\ Trim(ev.arg) # "" /\ searchInput = ""

\* the query was blanked by typing after a non-empty query
C5_WitnessTyped == ev.type = "handleSearch" /\ Trim(ev.arg) # "" /\ searchInput = " "

\* C6: processVoteData creates district, village and geo_key entries only for
\* districts of the allow-list.
C6_OnlyAllowListed ==
    /\ \A i \in 1..Len(districtResults) : districtResults[i].key \in recallDistrictSet
    /\ \A i \in 1..Len(villageResults) : villageResults[i].val.districtName \in recallDistrictSet
    /\ \A i \in 1..Len(geoKeyToDistrictMap) : geoKeyToDistrictMap[i].val \in recallDistrictSet

\* a file with a row of a district outside the list and a row inside it was aggregated
C6_Witness ==
    /\ ev.type = "processVoteData"
    /\ \E i \in 1..Len(voteData) : voteData[i].electoral_district_name = "DX"
    /\ Len(villageResults) > 0

\* C7: each village's candidates are in non-increasing order of votes, leader
\* is the first of them and runnerUp the second, each absent when there is none.
C7_VillageCandidatesSorted ==
    \A i \in 1..Len(villageResults) :
        LET v == villageResults[i].val
        IN /\ \A a, b \in 1..Len(v.candidates) : a < b => v.candidates[a].votes >= v.candidates[b].votes
           /\ v.leader = IF Len(v.candidates) > 0 THEN <<v.candidates[1]>> ELSE <<>>
           /\ v.runnerUp = IF Len(v.candidates) > 1 THEN <<v.candidates[2]>> ELSE <<>>

\* a village got three candidates whose rows came in increasing order of votes
C7_Witness ==
    /\ Len(villageResults) = 1
    /\ Len(villageResults[1].val.candidates) = 3
    /\ Num(voteData[1].votes) < Num(voteData[3].votes)
    /\ villageResults[1].val.leader[1].votes > villageResults[1].val.candidates[3].votes

\* C8: the winner of each district is one of its candidates, no candidate of
\* the district has more aggregated votes, and winnerParty is the party
\* recorded for the winner.
C8_DistrictWinnerHasMostVotes ==
    \A i \in 1..Len(districtResults) :
        LET d == districtResults[i].val
        IN /\ ObjHas(d.candidates, d.winner)
           /\ \A j \in 1..Len(d.candidates) : ObjGet(d.candidates, d.winner).votes >= d.candidates[j].val.votes
           /\ d.winnerParty = ObjGet(d.candidates, d.winner).party

\* a district whose second candidate in row order has more votes than its first
C8_Witness ==
    \E i \in 1..Len(districtResults) :
        LET d == districtResults[i].val
        IN Len(d.candidates) = 2 /\ d.candidates[1].val.votes < d.candidates[2].val.votes /\ d.winner = d.candidates[2].key

\* the rows the aggregation is said to keep: those with a geo_key and a district
RowsWithKeys(rows) == SelectSeq(rows, LAMBDA row : ~Falsy(row.geo_key) /\ ~Falsy(row.electoral_district_name))

\* C9: a row without geo_key or without district name contributes nothing:
\* the aggregate is the one of the file without such rows.
C9_KeylessRowsDropped ==
    ev.type = "processVoteData" =>
        /\ villageResults = processVoteData(RowsWithKeys(voteData)).villageResults
        /\ districtResults = processVoteData(RowsWithKeys(voteData)).districtResults
        /\ geoKeyToDistrictMap = processVoteData(RowsWithKeys(voteData)).geoKeyToDistrictMap

\* C10: after a year load that failed, the info panel shows the failure message.
C10_FailureMessageShown == (ev.type = "loadSettled" /\ ev.arg # "ok") => infoPanel = "failed"

\* C11: when the file Papa.parse resolved with has no first row, or its first
\* row lacks one of the nine required columns, the load ends with the schema
\* error and villageResults, districtResults and geoKeyToDistrictMap keep the
\* values they had: processVoteData has not run
C11_SchemaErrorKeepsAggregate ==
    [][(loads' # loads /\ ev'.type = "loadSettled" /\ ev'.served \in {"noRows", "missingColumn"})
        => (ev'.arg = "schemaError" /\ UNCHANGED <<villageResults, districtResults, geoKeyToDistrictMap>>)]_vars

C11_Witness ==
    /\ ev.type = "loadSettled" /\ ev.served = "missingColumn" /\ ev.arg = "schemaError"
    /\ Len(villageResults) > 0 /\ Len(districtResults) > 0 /\ Len(geoKeyToDistrictMap) > 0

\* C12: when the change listener has rendered a selection (the layer is as
\* renderMapLayers built it), a boundary feature is shown iff
\* geoKeyToDistrictMap gives its VILLCODE a district D and either the selected
\* value is D, or the selected value is 'all' and D is one of the districts
\* listed in the selector; a feature without a district is never shown
C12_VisibleFeatures ==
    (ev.type = "districtChange" /\ geoJsonLayer.onMap) =>
        \A f \in FeaturesOf(currentGeoData) :
            f \in geoJsonLayer.features <=>
                \E i \in 1..Len(geoKeyToDistrictMap) :
                    /\ geoKeyToDistrictMap[i].key = f
                    /\ geoKeyToDistrictMap[i].val # NULL
                    /\ \/ districtSelector.value = geoKeyToDistrictMap[i].val
                       \/ /\ districtSelector.value = "all"
                          /\ \E j \in 1..Len(DistrictOptions) : DistrictOptions[j].value = geoKeyToDistrictMap[i].val

\* 'all' is selected over a filtered list: a village of a listed district is
\* shown, a village of an unlisted district and a feature without district are not
C12_Witness ==
    /\ ev.type = "districtChange" /\ geoJsonLayer.onMap /\ districtSelector.value = "all" /\ Len(DistrictOptions) = 1
    /\ "1" \in geoJsonLayer.features
    /\ "A1" \notin geoJsonLayer.features /\ ObjHas(geoKeyToDistrictMap, "A1")
    /\ "Z9" \notin geoJsonLayer.features /\ ~ObjHas(geoKeyToDistrictMap, "Z9")

\* q occurs in s as a run of consecutive characters
IsSubstring(q, s) == \E i \in 1..(Len(s) + 1), j \in 0..Len(s) : SubSeq(s, i, j) = q

\* C13: after handleSearch, with q the trimmed lower-cased text of the search
\* box: when q is not empty the districts listed are exactly the allow-listed
\* districts d with q a substring of lower-cased "d 2024-winner-of-d" or of the
\* lower-cased search index string of d; when q is empty every allow-listed
\* district is listed
C13_SearchMatches ==
    ev.type = "handleSearch" =>
        LET q == Trim(ToLowerCase(searchInput))
            listed == {DistrictOptions[i].value : i \in 1..Len(DistrictOptions)}
            winnerOf(d) == IF \E i \in 1..Len(winners2024) : winners2024[i].key = d /\ winners2024[i].val # NULL
                           THEN (CHOOSE e \in {winners2024[i] : i \in 1..Len(winners2024)} : e.key = d).val ELSE ""
        IN IF q = "" THEN listed = recallDistrictSet
           ELSE listed = {d \in recallDistrictSet :
                    \/ IsSubstring(q, ToLowerCase(d \o " " \o winnerOf(d)))
                    \/ \E i \in 1..Len(districtResults) :
                          districtResults[i].key = d /\ IsSubstring(q, ToLowerCase(districtResults[i].val.searchableString))}

\* a query that matches one district only through its 2024 winner (the loaded
\* year has no data for it) and another through its search index string
C13_Witness ==
    /\ ev.type = "handleSearch" /\ Trim(ToLowerCase(searchInput)) = "x"
    /\ Len(winners2024) > 0
    /\ ~ObjHas(districtResults, "D1") /\ ObjHas(districtResults, "D2")
    /\ {DistrictOptions[i].value : i \in 1..Len(DistrictOptions)} = {"D1", "D2"}

\* C14: the rendered annotation list shows the stored annotations in the order
\* in which their keys entered the store, whatever the keys are
C14_ListInInsertionOrder ==
    [i \in 1..Len(annotationList) |-> annotationList[i].geoKey] = annCall.inserted

\* C15: a load in flight leaves only by settling, however many loads have been
\* started since; and a load that settles with both fetches resolved and the
\* file of its year runs the aggregation on that file, whatever year the year
\* selector shows and whatever other loads are in flight. The aggregate in
\* effect is therefore that of the load that settled last.
C15_EveryLoadAggregates ==
    [][\A l \in BagToSet(loads) :
          /\ CopiesIn(l, loads') < CopiesIn(l, loads) => (ev'.type = "loadSettled" /\ loads' = loads (-) SetToBag({l}))
          /\ (loads' = loads (-) SetToBag({l}) /\ ev'.served = "complete") =>
                /\ ev'.arg = "ok"
                /\ voteData' = VoteFile(l.year)
                /\ <<villageResults', districtResults', geoKeyToDistrictMap'>>
                     = <<Aggregated(l.year).villageResults, Aggregated(l.year).districtResults, Aggregated(l.year).geoKeyToDistrictMap>>]_vars

\* every load has settled; the one that settled last was started before the
\* year switch and has replaced the aggregate of the year the selector shows
C15_Witness ==
    /\ loads = EmptyBag /\ ev.type = "loadSettled" /\ ev.arg = "ok"
    /\ AggregatedYear \in Years \ {yearSelector}
    /\ ev.prev = yearSelector

\* C16: once currentGeoData holds the boundary data it keeps holding the same
\* data through every later step, a failed load included, and no load started
\* from then on issues a geo fetch
C16_GeoDataCached ==
    [][currentGeoData # NULL =>
          /\ currentGeoData' = currentGeoData
          /\ \A l \in BagToSet(loads') : CopiesIn(l, loads') > CopiesIn(l, loads) => ~l.geoFetch]_vars

\* after a successful load, a later load has failed while one started after the
\* success, without geo fetch, is still in flight; the cache is still there
C16_Witness ==
    /\ voteData # <<>> /\ currentGeoData # NULL
    /\ ev.type = "loadSettled" /\ ev.arg = "votesFailed"
    /\ \E l \in BagToSet(loads) : ~l.geoFetch

\* C17: the step in which load2024Winners fails leaves winners2024 empty and
\* starts the load of the year the selector shows; and whenever the page runs
\* with winners2024 empty every district option is labelled with the district
\* name alone and a search matches a district only through its name or its
\* search index string
C17_WinnersFailureDoesNotBlock ==
    [][/\ (pc = "load2024Winners" /\ ev'.type = "load2024Winners" /\ ev'.arg = "failed") =>
            /\ winners2024' = <<>>
            /\ pc' = "done"
            /\ \E geoFetch \in BOOLEAN : loads' = loads (+) SetToBag({[year |-> yearSelector, geoFetch |-> geoFetch]})
       /\ (pc' = "done" /\ winners2024' = <<>>) =>
            /\ \A i \in 1..Len(DistrictOptions') : DistrictOptions'[i].text = DistrictOptions'[i].value
            /\ (ev'.type = "handleSearch" /\ Trim(ToLowerCase(searchInput')) # "") =>
                  {DistrictOptions'[i].value : i \in 1..Len(DistrictOptions')}
                    = {d \in recallDistrictSet :
                          \/ IsSubstring(Trim(ToLowerCase(searchInput')), ToLowerCase(d \o " "))
                          \/ \E i \in 1..Len(districtResults') :
                                districtResults'[i].key = d /\ IsSubstring(Trim(ToLowerCase(searchInput')), ToLowerCase(districtResults'[i].val.searchableString))}]_vars

\* the winners load has failed, the initial year load has completed after it
\* and the selector lists the districts under their names
C17_Witness ==
    /\ pc = "done" /\ winners2024 = <<>>
    /\ ev.type = "loadSettled" /\ ev.arg = "ok" /\ loads = EmptyBag
    /\ Len(DistrictOptions) = Len(RECALL_DISTRICTS)
    /\ \A i \in 1..Len(DistrictOptions) : DistrictOptions[i].text = DistrictOptions[i].value

\* the position in the votes file of the first row of district d for candidate c
FirstRowOf(d, c) ==
    CHOOSE i \in 1..Len(voteData) :
        /\ voteData[i].electoral_district_name = d /\ Str(voteData[i].candidate_name) = c
        /\ \A j \in 1..(i - 1) : ~(voteData[j].electoral_district_name = d /\ Str(voteData[j].candidate_name) = c)

\* C18: in every district the winner has the highest aggregated votes, and
\* among the candidates that share that total it is the one whose first row
\* comes earliest in the input
C18_TieGoesToFirstEncountered ==
    ev.type = "processVoteData" =>
        \A i \in 1..Len(districtResults) :
            LET d == districtResults[i].key
                cs == districtResults[i].val.candidates
                w == districtResults[i].val.winner
            IN \E k \in 1..Len(cs) :
                  /\ cs[k].key = w
                  /\ \A m \in 1..Len(cs) :
                        \/ cs[m].val.votes < cs[k].val.votes
                        \/ m = k
                        \/ (cs[m].val.votes = cs[k].val.votes /\ FirstRowOf(d, w) < FirstRowOf(d, cs[m].key))

\* X and Y tie at the top of a district, Y's first row comes first and Y is the winner
C18_Witness ==
    /\ ev.type = "processVoteData"
    /\ \E i \in 1..Len(districtResults) :
          LET cs == districtResults[i].val.candidates
          IN /\ ObjHas(cs, "X") /\ ObjHas(cs, "Y")
             /\ ObjGet(cs, "X").votes = ObjGet(cs, "Y").votes
             /\ \A m \in 1..Len(cs) : cs[m].val.votes <= ObjGet(cs, "Y").votes
             /\ FirstRowOf(districtResults[i].key, "Y") < FirstRowOf(districtResults[i].key, "X")
             /\ districtResults[i].val.winner = "Y"

\* the rows of the votes file that the second pass takes up for geo_key g, as
\* positions in the file: an allow-listed district and geo_key g
ScopeRows(g) ==
    {i \in 1..Len(voteData) : voteData[i].geo_key = g /\ voteData[i].electoral_district_name \in recallDistrictSet}

\* C19: every village carries the electorate, total_votes, display name and
\* district name of the first in-scope row with its geo_key, and one candidate
\* per in-scope row with that geo_key
C19_FirstRowSetsVillage ==
    ev.type = "processVoteData" =>
        \A n \in 1..Len(villageResults) :
            LET g == villageResults[n].key
                v == villageResults[n].val
                first == voteData[CHOOSE i \in ScopeRows(g) : \A j \in ScopeRows(g) : i <= j]
            IN /\ ScopeRows(g) # {}
               /\ v.electorate = (IF first.electorate = <<>> THEN 0 ELSE first.electorate[1])
               /\ v.total_votes = (IF first.total_votes = <<>> THEN 0 ELSE first.total_votes[1])
               /\ v.fullName = Str(first.county_name) \o " " \o Str(first.township_name) \o " " \o Str(first.village_name)
               /\ v.districtName = first.electoral_district_name
               /\ Len(v.candidates) = Cardinality(ScopeRows(g))
               /\ \A i \in ScopeRows(g) : \E k \in 1..Len(v.candidates) : v.candidates[k].name = voteData[i].candidate_name

\* a village built from two rows that disagree on electorate, township and district
C19_Witness ==
    /\ ev.type = "processVoteData"
    /\ \E n \in 1..Len(villageResults) :
          LET g == villageResults[n].key
              v == villageResults[n].val
          IN /\ Len(v.candidates) >= 2
             /\ \E i \in ScopeRows(g) :
                   /\ voteData[i].electorate # <<>> /\ voteData[i].electorate[1] # v.electorate
                   /\ voteData[i].electoral_district_name # v.districtName
                   /\ Str(voteData[i].township_name) # "T" \o g

\* the votes the rows of district d give candidate c
RECURSIVE VotesIn(_, _, _)
VotesIn(rows, d, c) ==
    IF rows = <<>> THEN 0
    ELSE (IF Head(rows).electoral_district_name = d /\ Str(Head(rows).candidate_name) = c
          THEN (IF Head(rows).votes = <<>> THEN 0 ELSE Head(rows).votes[1]) ELSE 0) + VotesIn(Tail(rows), d, c)

\* C20: after a successful load the three globals hold nothing but what the
\* rows of that load give: every village and every entry of the geo_key map has
\* an in-scope row with its geo_key, a village has one candidate per such row,
\* every district and candidate has a row, and a candidate's total is the sum
\* over the rows of this file alone
C20_RebuiltInFull ==
    (ev.type = "loadSettled" /\ ev.arg = "ok") =>
        /\ \A n \in 1..Len(villageResults) :
              /\ ScopeRows(villageResults[n].key) # {}
              /\ Len(villageResults[n].val.candidates) = Cardinality(ScopeRows(villageResults[n].key))
        /\ \A n \in 1..Len(geoKeyToDistrictMap) :
              \E i \in ScopeRows(geoKeyToDistrictMap[n].key) : voteData[i].electoral_district_name = geoKeyToDistrictMap[n].val
        /\ \A n \in 1..Len(districtResults) :
              /\ districtResults[n].key \in recallDistrictSet
              /\ Len(districtResults[n].val.candidates) > 0
              /\ \A k \in 1..Len(districtResults[n].val.candidates) :
                    LET c == districtResults[n].val.candidates[k]
                    IN /\ \E i \in 1..Len(voteData) : voteData[i].electoral_district_name = districtResults[n].key /\ Str(voteData[i].candidate_name) = c.key
                       /\ c.val.votes = VotesIn(voteData, districtResults[n].key, c.key)

\* the 2020 file has been loaded over the aggregate of the 2024 file: district
\* D1, which only the 2024 file has, is gone
C20_Witness ==
    /\ ev.type = "loadSettled" /\ ev.arg = "ok"
    /\ ev.prev = "2024" /\ AggregatedYear = "2020"
    /\ ~ObjHas(districtResults, "D1") /\ ObjHas(districtResults, "D2")
    /\ Len(villageResults) > 0

\* the rows of district d for candidate c that the village pass takes up, as
\* positions in the votes file: they name a geo_key
ScopeRowsOf(d, c) ==
    {i \in 1..Len(voteData) :
        /\ voteData[i].geo_key # NULL
        /\ voteData[i].electoral_district_name = d
        /\ Str(voteData[i].candidate_name) = c}

RECURSIVE SumOver(_, _)
SumOver(S, f) == IF S = {} THEN 0 ELSE LET x == CHOOSE y \in S : TRUE IN f[x] + SumOver(S \ {x}, f)

\* the votes of candidate c in the villages that villageResults files under district d
VillageVotesOf(d, c) ==
    LET cells == {<<n, k>> \in (1..Len(villageResults)) \X (1..MaxRows + 1) :
                     /\ villageResults[n].val.districtName = d
                     /\ k <= Len(villageResults[n].val.candidates)
                     /\ Str(villageResults[n].val.candidates[k].name) = c}
    IN SumOver(cells, [cell \in cells |-> villageResults[cell[1]].val.candidates[cell[2]].votes])

\* C24: after processVoteData every candidate of every district has as votes
\* the sum of the votes of the in-scope rows of that district and name (missing
\* votes count 0) and as party the party_name of the first of them, and the
\* total is the sum of the candidate's votes over the villages of the district
C24_DistrictTotals ==
    ev.type = "processVoteData" =>
        \A n \in 1..Len(districtResults) :
            \A k \in 1..Len(districtResults[n].val.candidates) :
                LET d == districtResults[n].key
                    c == districtResults[n].val.candidates[k]
                    rows == ScopeRowsOf(d, c.key)
                IN /\ rows # {}
                   /\ c.val.votes = SumOver(rows, [i \in rows |-> IF voteData[i].votes = <<>> THEN 0 ELSE voteData[i].votes[1]])
                   /\ c.val.party = voteData[CHOOSE i \in rows : \A j \in rows : i <= j].party_name
                   /\ c.val.votes = VillageVotesOf(d, c.key)

\* C25: after processVoteData villageResults and geoKeyToDistrictMap have the
\* same keys, and every geo_key is mapped to the district its village is filed
\* under
C25_MapAgreesWithVillages ==
    ev.type = "processVoteData" =>
        /\ {villageResults[n].key : n \in 1..Len(villageResults)} = {geoKeyToDistrictMap[n].key : n \in 1..Len(geoKeyToDistrictMap)}
        /\ \A n \in 1..Len(villageResults), m \in 1..Len(geoKeyToDistrictMap) :
              villageResults[n].key = geoKeyToDistrictMap[m].key => geoKeyToDistrictMap[m].val = villageResults[n].val.districtName

\* the allow-listed districts that the query in the search box matches against
\* winners2024 and the district data now loaded
MatchingNow ==
    LET q == Trim(ToLowerCase(searchInput))
    IN {d \in recallDistrictSet :
           \/ \E i \in 1..Len(winners2024) :
                 winners2024[i].key = d /\ IsSubstring(q, ToLowerCase(d \o " " \o (IF winners2024[i].val = NULL THEN "" ELSE winners2024[i].val)))
           \/ (~\E i \in 1..Len(winners2024) : winners2024[i].key = d) /\ IsSubstring(q, ToLowerCase(d \o " "))
           \/ \E i \in 1..Len(districtResults) :
                 districtResults[i].key = d /\ IsSubstring(q, ToLowerCase(districtResults[i].val.searchableString))}

\* C26: whenever the selector has been filled and the search box holds a query
\* that is not blank, the districts offered are exactly the allow-listed
\* districts that match the query against the data now loaded
C26_ListMatchesQuery ==
    (Len(districtSelector.options) > 0 /\ Trim(ToLowerCase(searchInput)) # "") =>
        {DistrictOptions[i].value : i \in 1..Len(DistrictOptions)} = MatchingNow

\* C27: while the selector is on the placeholder 'none', no vote layer is on the map
C27_NoLayerWithoutSelection ==
    districtSelector.value = "none" => ~geoJsonLayer.onMap

\* C28: the marker layer holds exactly one marker for every stored key, at the
\* lat/lng stored for that key, and no marker for any other key
C28_MarkersInSync ==
    /\ \A i \in 1..Len(annotations) :
          \E m \in 1..Len(annotationLayer) :
              /\ annotationLayer[m].geoKey = annotations[i].key
              /\ annotationLayer[m].lat = annotations[i].val.lat
              /\ annotationLayer[m].lng = annotations[i].val.lng
              /\ \A n \in 1..Len(annotationLayer) : annotationLayer[n].geoKey = annotations[i].key => n = m
    /\ \A m \in 1..Len(annotationLayer) : \E i \in 1..Len(annotations) : annotations[i].key = annotationLayer[m].geoKey

\* a stored annotation has just been saved again while another key is stored,
\* and a key deleted earlier has no marker
C28_Witness ==
    /\ annCall.op = "save" /\ annCall.present /\ ~annCall.blank
    /\ Len(annotations) = 2 /\ Len(annotationLayer) = 2
    /\ \E k \in AnnKeys : \A i \in 1..Len(annotations) : annotations[i].key # k

\* C29: after processVoteData every village has at least one candidate and a leader
C29_VillageHasCandidate ==
    ev.type = "processVoteData" =>
        \A n \in 1..Len(villageResults) :
            /\ Len(villageResults[n].val.candidates) >= 1
            /\ villageResults[n].val.leader # <<>>
            /\ villageResults[n].val.leader[1] = villageResults[n].val.candidates[1]

\* a village built from a single row, whose votes are missing: it has that
\* row's candidate, as leader, and no runnerUp
C29_Witness ==
    /\ ev.type = "processVoteData"
    /\ \E n \in 1..Len(villageResults) :
          /\ Len(villageResults[n].val.candidates) = 1
          /\ villageResults[n].val.candidates[1].votes = 0
          /\ villageResults[n].val.runnerUp = <<>>
          /\ villageResults[n].val.leader # <<>>

\* C21: getColor(village) is the no-data gray when the village, its leader,
\* its runnerUp or its electorate is absent or zero; otherwise the contested
\* red when 20 * |leader.votes - runnerUp.votes| < electorate, whatever the
\* leader's party; otherwise the colour of the leader's party
C21_TurnoutClassifier ==
    called.fn = "getColor" =>
        called.result =
            IF called.arg = <<>> THEN "#cccccc"
            ELSE IF called.arg[1].leader = <<>> \/ called.arg[1].runnerUp = <<>> \/ called.arg[1].electorate = 0 THEN "#cccccc"
            ELSE LET lv == called.arg[1].leader[1].votes
                     rv == called.arg[1].runnerUp[1].votes
                 IN IF 20 * (IF lv >= rv THEN lv - rv ELSE rv - lv) < called.arg[1].electorate THEN "#ef4444"
                    ELSE IF called.arg[1].leader[1].party = KMT_PARTY_NAME THEN "#3b82f6"
                    ELSE IF called.arg[1].leader[1].party = DPP_PARTY_NAME THEN "#16a34a"
                    ELSE "rgba(0, 0, 0, 0.4)"

\* C22: for a row whose two vote counts have a positive sum the marker is red
\* iff |winner_votes - opponent_votes| / (winner_votes + opponent_votes) < 0.05,
\* violet iff that margin is at least 0.05 and below 0.15, and blue otherwise
C22_MarginClassifier ==
    (called.fn = "initialize" /\ called.arg.winner_votes + called.arg.opponent_votes > 0) =>
        LET w == called.arg.winner_votes
            o == called.arg.opponent_votes
            diff == IF w >= o THEN w - o ELSE o - w
        IN called.result = IF 20 * diff < w + o THEN "#ef4444"
                           ELSE IF 20 * diff < 3 * (w + o) THEN "#a78bfa"
                           ELSE "#2563eb"

\* Reading a text as CSV: a double quote opens or closes a quoted stretch, a
\* comma or a line break outside quoted stretches ends a field or a record,
\* and a field inside quotes stands for its content with "" read as "
QuotesBefore(s, i) == Cardinality({j \in 1..(i - 1) : CharAt(s, j) = "\""})

Breaks(s, c) == {i \in 1..Len(s) : CharAt(s, i) = c /\ QuotesBefore(s, i) % 2 = 0}

SplitAt(s, breaks) ==
    LET n == Cardinality(breaks)
        at(k) == IF k = 0 THEN 0 ELSE IF k = n + 1 THEN Len(s) + 1 ELSE CHOOSE b \in breaks : Cardinality({c \in breaks : c < b}) = k - 1
    IN [k \in 1..(n + 1) |-> SubSeq(s, at(k - 1) + 1, at(k) - 1)]

RECURSIVE Unescape(_)
Unescape(s) ==
    IF s = "" THEN ""
    ELSE IF Len(s) >= 2 /\ SubSeq(s, 1, 2) = "\"\"" THEN "\"" \o Unescape(SubSeq(s, 3, Len(s)))
    ELSE CharAt(s, 1) \o Unescape(SubSeq(s, 2, Len(s)))

Unquote(f) == IF Len(f) >= 2 /\ CharAt(f, 1) = "\"" /\ CharAt(f, Len(f)) = "\"" THEN Unescape(SubSeq(f, 2, Len(f) - 1)) ELSE f

ParseCSV(text) ==
    LET records == SplitAt(text, Breaks(text, "\n"))
    IN [r \in 1..Len(records) |->
           LET fields == SplitAt(records[r], Breaks(records[r], ","))
           IN [k \in 1..Len(fields) |-> Unquote(fields[k])]]

\* C23: the text exportToCSV hands to downloadFile for a store that is not
\* empty reads back, as CSV, as the header name,latitude,longitude,note and
\* one record (name, lat, lng, note) per annotation, in the order of the store
C23_CsvRoundTrip ==
    (called.fn = "exportToCSV" /\ Len(annotations) > 0) =>
        /\ Len(called.downloads) = 1
        /\ LET records == ParseCSV(called.downloads[1].content)
           IN /\ Len(records) = 1 + Len(annotations)
              /\ records[1] = <<"name", "latitude", "longitude", "note">>
              /\ \A i \in 1..Len(annotations) :
                    records[i + 1] = <<annotations[i].val.name, ToString(annotations[i].val.lat), ToString(annotations[i].val.lng), annotations[i].val.note>>

\* C30: an export of a store that is not empty calls downloadFile once, with
\* the content, then a file name, then the MIME type of the format; an export
\* of an empty store does not call it
C30_DownloadArguments ==
    called.fn \in {"exportToCSV", "exportToKML"} =>
        IF Len(annotations) = 0 THEN called.downloads = <<>>
        ELSE /\ Len(called.downloads) = 1
             /\ called.downloads[1].content # ""
             /\ called.downloads[1].mimeType = (IF called.fn = "exportToCSV" THEN "text/csv;charset=utf-8;" ELSE "application/vnd.google-earth.kml+xml")
             /\ called.downloads[1].fileName \notin {NULL, "", called.downloads[1].mimeType}

====
